---- MODULE Spec2Model ----
(***************************************************************************)
(* PinCeR: an OCI Distribution v2 registry that stages pushes in a local   *)
(* store, acknowledges them, and pins them to Filecoin Pin / IPFS in the   *)
(* background (src/src/index.ts, src/src/auth.ts, src/src/synapse-         *)
(* manager.ts, src/unnamed/part_004).                                      *)
(*                                                                         *)
(* Strings that the code joins or tests on ":" are sequences of pieces:    *)
(* "a:t" is <<"a","t">>, "sha256:<hex>" is <<"sha256", hex>>, and the      *)
(* template `${imageName}:${reference}` is the concatenation of the two    *)
(* sequences.  null / undefined / "" is the empty sequence.                *)
(***************************************************************************)
EXTENDS Integers, Sequences, FiniteSets, TLC

\* ---------------------------------------------------------------- bounds
MaxUploads == 2      \* upload sessions ever started (randomUUID values)
MaxOpen    == 1      \* upload sessions open at the same time
MaxChunks  == 1      \* chunks appended to one session
MaxPuts    == 2      \* PUT requests that get past local finalisation

\* ---------------------------------------------------------------- inputs
Null == <<>>

\* image names of the URL; "a:t" is an opaque path segment like any other
Images == {<<"a">>, <<"a", "t">>}
Tags == {<<"t">>}
\* normalised private keys (AuthCredentials.privateKey); Null: no credentials
Creds == {<<"0xk">>}
\* request bodies of PATCH / blob PUT
Chunks == {<<1>>}

\* ------------------------------------------------- digests and content ids
\* sha256 as an ideal (collision free) hash: the hex text stands for the bytes
Hex(bytes) == ToString(bytes)

computeDigest(data) == <<"sha256", Hex(data)>>

\* string.startsWith('sha256:')
startsWithSha256(s) == Len(s) >= 2 /\ s[1] = "sha256"

\* string.replace('sha256:', ''): drops the first occurrence
stripSha256(s) ==
  IF \E i \in 1..(Len(s) - 1) : s[i] = "sha256"
  THEN LET i == CHOOSE j \in 1..(Len(s) - 1) :
                  s[j] = "sha256" /\ \A k \in 1..(j - 1) : s[k] # "sha256"
       IN SubSeq(s, 1, i - 1) \o SubSeq(s, i + 1, Len(s))
  ELSE s

\* createCarFromBytes: CID v1, raw codec, sha256 of the bytes; rootCid.toString()
rootCid(data) == <<"bafk" \o Hex(data)>>

\* ------------------------------------------------------------ JSON values
\* a JSON value of the mapping tree: a string, or an object (props).  oid is
\* the identity of an object that is referenced from more than one place
\* (0: referenced once).
Str(s) == [kind |-> "str", s |-> s, props |-> <<>>, oid |-> 0]
Obj(p) == [kind |-> "obj", s |-> <<>>, props |-> p, oid |-> 0]
SharedObj(p, id) == [kind |-> "obj", s |-> <<>>, props |-> p, oid |-> id]

Truthy(v) == v.kind = "obj" \/ v.s # Null
In(k, o) == k \in DOMAIN o.props
Put(f, k, v) == [x \in (DOMAIN f) \cup {k} |-> IF x = k THEN v ELSE f[x]]
SetProp(o, k, v) == [o EXCEPT !.props = Put(o.props, k, v)]

BLOBS == <<"blobs">>
MANIFEST_CID == <<"manifest_cid">>

\* `${imageName}:${reference}`
ImageKey(imageName, reference) == imageName \o reference

\* key.startsWith(`${imageName}:`)
startsWithImage(key, imageName) ==
  /\ Len(key) > Len(imageName)
  /\ SubSeq(key, 1, Len(imageName)) = imageName

\* the string of a mapping value: itself, or its manifest_cid
manifestCidOf(v) ==
  IF v.kind = "str" THEN v.s
  ELSE IF In(MANIFEST_CID, v) THEN v.props[MANIFEST_CID].s
  ELSE Null

\* getManifestCid with the bug of looking at the nested entry first
getManifestCidNestedFirst(m, imageName, reference) ==
  LET imageKey == ImageKey(imageName, reference)
      direct == IF imageKey \in DOMAIN m /\ Truthy(m[imageKey])
                THEN manifestCidOf(m[imageKey]) ELSE Null
      hasDirect == /\ imageKey \in DOMAIN m
                   /\ Truthy(m[imageKey])
                   /\ (m[imageKey].kind = "str" \/ In(MANIFEST_CID, m[imageKey]))
      nestedOk == /\ imageName \in DOMAIN m
                  /\ m[imageName].kind = "obj"
                  /\ In(reference, m[imageName])
                  /\ LET tagData == m[imageName].props[reference]
                     IN tagData.kind = "str" \/ In(MANIFEST_CID, tagData)
      scanOk == /\ startsWithSha256(reference)
                /\ \E key \in DOMAIN m :
                      /\ startsWithImage(key, imageName)
                      /\ manifestCidOf(m[key]) = reference
  IN IF nestedOk THEN manifestCidOf(m[imageName].props[reference])
     ELSE IF hasDirect THEN direct
     ELSE IF scanOk THEN reference
     ELSE Null

\* ImageMapping.getManifestCid
getManifestCid(m, imageName, reference) ==
  LET imageKey == ImageKey(imageName, reference)
      direct == IF imageKey \in DOMAIN m /\ Truthy(m[imageKey])
                THEN manifestCidOf(m[imageKey]) ELSE Null
      hasDirect == /\ imageKey \in DOMAIN m
                   /\ Truthy(m[imageKey])
                   /\ (m[imageKey].kind = "str" \/ In(MANIFEST_CID, m[imageKey]))
      nestedOk == /\ imageName \in DOMAIN m
                  /\ m[imageName].kind = "obj"
                  /\ In(reference, m[imageName])
                  /\ LET tagData == m[imageName].props[reference]
                     IN tagData.kind = "str" \/ In(MANIFEST_CID, tagData)
      scanOk == /\ startsWithSha256(reference)
                /\ \E key \in DOMAIN m :
                      /\ startsWithImage(key, imageName)
                      /\ manifestCidOf(m[key]) = reference
  IN IF hasDirect THEN direct
     ELSE IF nestedOk THEN manifestCidOf(m[imageName].props[reference])
     ELSE IF scanOk THEN reference
     ELSE Null

\* ImageMapping.getBlobCid
getBlobCid(m, imageName, digest) ==
  LET imageHit == /\ imageName \in DOMAIN m
                  /\ m[imageName].kind = "obj"
                  /\ In(BLOBS, m[imageName])
                  /\ m[imageName].props[BLOBS].kind = "obj"
                  /\ In(digest, m[imageName].props[BLOBS])
      globalHit == /\ BLOBS \in DOMAIN m
                   /\ m[BLOBS].kind = "obj"
                   /\ In(digest, m[BLOBS])
                   /\ m[BLOBS].props[digest].kind = "str"
  IN IF imageHit THEN m[imageName].props[BLOBS].props[digest].s
     ELSE IF globalHit THEN m[BLOBS].props[digest].s
     ELSE Null

\* addMapping with the bug of rewriting the mapping with the new key only
addMappingFresh(m, imageName, reference, manifestCid, blobs) ==
  ImageKey(imageName, reference) :>
    (IF blobs.kind = "obj" /\ DOMAIN blobs.props # {}
     THEN Obj(MANIFEST_CID :> Str(manifestCid) @@ BLOBS :> blobs)
     ELSE Str(manifestCid))

\* ImageMapping.addMapping (the in-memory part)
addMapping(m, imageName, reference, manifestCid, blobs) ==
  Put(m, ImageKey(imageName, reference),
      IF blobs.kind = "obj" /\ DOMAIN blobs.props # {}
      THEN Obj(MANIFEST_CID :> Str(manifestCid) @@ BLOBS :> blobs)
      ELSE Str(manifestCid))

\* in-place write data.blobs[digest] = value of the blob PUT handler's updaters:
\* creates mappings[name] = { blobs: {} } over a missing or string entry, and
\* writes through to every reference of a shared blobs object
setBlobEntry(m, name, digest, value) ==
  LET m1 == IF name \notin DOMAIN m \/ m[name].kind = "str"
            THEN Put(m, name, Obj(BLOBS :> Obj(<<>>)))
            ELSE m
      imageData == m1[name]
  IN IF imageData.kind = "obj" /\ In(BLOBS, imageData)
     THEN LET b0 == imageData.props[BLOBS]
              b1 == IF Truthy(b0) THEN b0 ELSE Obj(<<>>)
              nb == SetProp(b1, digest, Str(value))
          IN [k \in DOMAIN m1 |->
                IF k = name THEN SetProp(imageData, BLOBS, nb)
                ELSE IF /\ b1.oid # 0
                        /\ m1[k].kind = "obj"
                        /\ In(BLOBS, m1[k])
                        /\ m1[k].props[BLOBS].oid = b1.oid
                     THEN SetProp(m1[k], BLOBS, nb)
                     ELSE m1[k]]
     ELSE m1

\* ------------------------------------------------------- manifest documents
\* JSON.parse of a request body: <<7>> is a Docker v2 manifest with one layer,
\* <<8>> an OCI manifest without layers; every other byte string is not JSON.
\* The clients of the model send <<7>>, <<9>> and the empty body.  The bodies
\* <<10>> .. <<21>> are the documents with schemaVersion absent (0), 1 or 2,
\* with or without a layers field and with or without an fsLayers field.
LayerData == <<1>>
LegacyLayerData == <<2, 3>>
DocumentBodies == {<<n>> : n \in 10..21}

DocumentOf(n) ==
  LET hasLayers == ((n \div 2) % 2) = 1
      hasFsLayers == (n % 2) = 1
  IN [valid |-> TRUE, schemaVersion |-> n \div 4, hasLayers |-> hasLayers,
      layers |-> IF hasLayers THEN <<computeDigest(LayerData)>> ELSE <<>>,
      hasFsLayers |-> hasFsLayers,
      fsLayers |-> IF hasFsLayers THEN <<computeDigest(LegacyLayerData)>>
                   ELSE <<>>]

JSONparse(bytes) ==
  IF bytes = <<7>>
  THEN [valid |-> TRUE, schemaVersion |-> 2, hasLayers |-> TRUE,
        layers |-> <<computeDigest(LayerData)>>,
        hasFsLayers |-> FALSE, fsLayers |-> <<>>]
  ELSE IF bytes = <<8>>
  THEN [valid |-> TRUE, schemaVersion |-> 0, hasLayers |-> FALSE,
        layers |-> <<>>, hasFsLayers |-> FALSE, fsLayers |-> <<>>]
  ELSE IF bytes \in DocumentBodies
  THEN DocumentOf(bytes[1] - 10)
  ELSE [valid |-> FALSE, schemaVersion |-> 0, hasLayers |-> FALSE,
        layers |-> <<>>, hasFsLayers |-> FALSE, fsLayers |-> <<>>]

ManifestBodies == {<<7>>, <<9>>, <<>>}

\* parseManifestLayers without the schemaVersion 2 case
parseManifestLayersAnySchema(manifest) ==
  IF manifest.hasLayers THEN manifest.layers
  ELSE IF manifest.hasFsLayers THEN manifest.fsLayers
  ELSE <<>>

\* parseManifestLayers: the digests of the layers it returns
parseManifestLayers(manifest) ==
  IF manifest.schemaVersion = 2
  THEN (IF manifest.hasLayers THEN manifest.layers ELSE <<>>)
  ELSE IF manifest.hasLayers THEN manifest.layers
  ELSE IF manifest.hasFsLayers THEN manifest.fsLayers
  ELSE <<>>

\* ------------------------------------------------------------ local store
RECURSIVE getData(_)
\* UploadSession.getData: Buffer.concat(chunks)
getData(chunks) ==
  IF chunks = <<>> THEN <<>> ELSE Head(chunks) \o getData(Tail(chunks))

\* BlobStorage.getBlobPath / getManifestPath: the file name, Null when missing
getBlobPath(files, digest) ==
  IF stripSha256(digest) \in DOMAIN files THEN stripSha256(digest) ELSE Null

getManifestPath(files, digest) ==
  IF stripSha256(digest) \in DOMAIN files THEN stripSha256(digest) ELSE Null

\* every byte string a session of the model can hold
RECURSIVE SeqsUpTo(_, _)
SeqsUpTo(S, n) ==
  IF n = 0 THEN {<<>>}
  ELSE LET shorter == SeqsUpTo(S, n - 1)
       IN shorter \cup {Append(q, x) : q \in shorter, x \in S}

AllData == {getData(cs) : cs \in SeqsUpTo(Chunks, MaxChunks)}

\* the bytes a content id addresses
DataOfCid(cid) ==
  LET all == AllData \cup ManifestBodies
  IN IF \E b \in all : rootCid(b) = cid
     THEN CHOOSE b \in all : rootCid(b) = cid
     ELSE Null

\* JSON.stringify followed by JSON.parse: the same tree, every object its own
unshare(v) ==
  IF v.kind = "obj"
  THEN Obj([k \in DOMAIN v.props |->
              IF v.props[k].kind = "obj" THEN Obj(v.props[k].props)
              ELSE v.props[k]])
  ELSE v

JSONstringify(m) == [k \in DOMAIN m |-> unshare(m[k])]

\* ------------------------------------------------------------------ state
VARIABLES
  uploadSessions,        \* BlobStorage.uploadSessions: uploadId -> session
  nextUpload,            \* randomUUID values handed out so far
  blobFiles,             \* <storageDir>/blobs: file name -> bytes
  manifestFiles,         \* <storageDir>/manifests: file name -> bytes
  mappings,              \* ImageMapping.mappings (the JSON tree)
  mappingFile,           \* the mapping file on disk (parsed), Null: no file
  synapseInstanceCache,  \* private key -> base Synapse instance
  imageDatasetCache,     \* `${privateKey}:${imageName}` -> SynapseService
  instances,             \* backend: base services initialised, in order
  datasets,              \* backend: datasets created, in order
  pinned,                \* backend: pieces pinned, [cid, dataSetId]
  tasks                  \* the PUT handlers past their first await

vars == <<uploadSessions, nextUpload, blobFiles, manifestFiles, mappings,
          mappingFile, synapseInstanceCache, imageDatasetCache, instances,
          datasets, pinned, tasks>>

storeVars == <<uploadSessions, nextUpload, blobFiles, manifestFiles>>
mapVars == <<mappings, mappingFile>>
backendVars == <<synapseInstanceCache, imageDatasetCache, instances, datasets>>

Remove(f, k) == [x \in (DOMAIN f) \ {k} |-> f[x]]

\* the text a write of the mapping file leaves when it does not complete
\* (writeFileSync truncates the file, then writes): a proper prefix of the
\* document, which JSON.parse rejects
TruncatedFile == <<"{">> :> Str(Null)

\* ImageMapping.loadMappings: no file, or a file that does not parse, gives {}
loadMappings(file) ==
  IF file = Null \/ file = TruncatedFile THEN <<>> ELSE file

\* ImageMapping.saveMappings: the file afterwards.  written: writeFileSync
\* returned; otherwise it threw part way (the error is caught and logged)
saveMappings(m, written) ==
  IF written THEN JSONstringify(m) ELSE TruncatedFile

\* the server after construction on an empty storage directory
InitWith(file, remote) ==
  /\ uploadSessions = <<>>
  /\ nextUpload = 0
  /\ blobFiles = <<>>
  /\ manifestFiles = <<>>
  /\ mappingFile = file
  /\ mappings = loadMappings(file)
  /\ synapseInstanceCache = <<>>
  /\ imageDatasetCache = <<>>
  /\ instances = <<>>
  /\ datasets = <<>>
  /\ pinned = remote
  /\ tasks = <<>>

Init == InitWith(Null, {})

\* --------------------------------------------------------- upload sessions
\* The status operators give what the synchronous part of a handler answers.
\* "throw": the handler throws (Express answers 500 for a synchronous handler
\* and leaves the request of an async handler without a response); "await":
\* the handler is suspended and has not answered yet.

\* requireAuth with the bug of letting every request through
requireAuthOpen(cred) == "next"

\* requireAuth; cred is what extractCredentials returns
requireAuth(cred) == IF cred = Null THEN "401" ELSE "next"

\* the headers requireAuth sets on the response it sends
requireAuthHeaders(cred) ==
  IF requireAuth(cred) = "401" THEN {"WWW-Authenticate"} ELSE {}

\* a push request without credentials ends in the middleware
RequireAuthRejects(cred) ==
  /\ requireAuth(cred) = "401"
  /\ UNCHANGED vars

\* app.post('/v2/*/blobs/uploads'): the response
PostUploadStatus(name, cred) ==
  IF requireAuth(cred) = "401" THEN "401" ELSE "202"

\* app.post('/v2/*/blobs/uploads'): the headers of the 202.  The upload id is
\* the randomUUID value startUpload draws
PostUploadResponse(name, cred) ==
  [status |-> PostUploadStatus(name, cred),
   Location |-> <<"v2", name, "blobs", "uploads", nextUpload + 1>>,
   DockerUploadUUID |-> nextUpload + 1,
   Range |-> <<0, 0>>]

\* app.post('/v2/*/blobs/uploads'): requireAuth, startUpload; at most
\* maxUploads sessions are ever started and maxOpen are open at a time
PostUploadWithin(name, cred, maxUploads, maxOpen) ==
  IF PostUploadStatus(name, cred) # "202"
  THEN UNCHANGED vars
  ELSE /\ nextUpload < maxUploads
       /\ Cardinality(DOMAIN uploadSessions) < maxOpen
       /\ nextUpload' = nextUpload + 1
       /\ uploadSessions' = Put(uploadSessions, nextUpload + 1,
                                [name |-> name, chunks |-> <<>>, size |-> 0])
       /\ UNCHANGED <<blobFiles, manifestFiles, mapVars, backendVars, pinned, tasks>>

PostUpload(name, cred) == PostUploadWithin(name, cred, MaxUploads, MaxOpen)

\* UploadSession.appendChunk with the bug of counting the last chunk only
appendChunkLastSize(session, chunk) ==
  [session EXCEPT !.chunks = Append(@, chunk), !.size = Len(chunk)]

\* UploadSession.appendChunk with the bug of putting the chunk in front
appendChunkInFront(session, chunk) ==
  [session EXCEPT !.chunks = <<chunk>> \o @, !.size = @ + Len(chunk)]

\* UploadSession.appendChunk
appendChunk(session, chunk) ==
  [session EXCEPT !.chunks = Append(@, chunk), !.size = @ + Len(chunk)]

\* PatchUploadStatus with the bug of accepting an empty body
PatchUploadStatusNoEmptyCheck(uploadId, chunkData, cred) ==
  IF requireAuth(cred) = "401" THEN "401"
  ELSE IF uploadId \notin DOMAIN uploadSessions THEN "500"
  ELSE "202"

\* app.patch('/v2/*/blobs/uploads/:uploadId'): the response
PatchUploadStatus(uploadId, chunkData, cred) ==
  IF requireAuth(cred) = "401" THEN "401"
  ELSE IF chunkData = <<>> THEN "400"
  ELSE IF uploadId \notin DOMAIN uploadSessions
  THEN "500"   \* BlobStorage.appendChunk throws in a synchronous handler
  ELSE "202"

\* the Range header of a 202: `0-${size - 1}`
PatchUploadRange(uploadId, chunkData) ==
  <<0, appendChunk(uploadSessions[uploadId], chunkData).size - 1>>

\* the error text of a 400 of the PATCH handler
PatchUploadError(uploadId, chunkData, cred) ==
  IF PatchUploadStatus(uploadId, chunkData, cred) = "400"
  THEN "No data provided" ELSE ""

\* app.patch('/v2/*/blobs/uploads/:uploadId'); a session takes at most
\* maxChunks chunks
PatchUploadWithin(name, uploadId, chunkData, cred, maxChunks) ==
  IF PatchUploadStatus(uploadId, chunkData, cred) # "202"
  THEN UNCHANGED vars
  ELSE /\ Len(uploadSessions[uploadId].chunks) < maxChunks
       /\ uploadSessions' = [uploadSessions EXCEPT
                               ![uploadId] = appendChunk(@, chunkData)]
       /\ UNCHANGED <<nextUpload, blobFiles, manifestFiles, mapVars,
                      backendVars, pinned, tasks>>

PatchUpload(name, uploadId, chunkData, cred) ==
  PatchUploadWithin(name, uploadId, chunkData, cred, MaxChunks)

\* ------------------------------------------------------------ PUT handlers
\* a PUT handler suspended at an await.  pc: "car" (manifest: createCarFromBytes),
\* "svc_init" (initializeSynapse), "svc_ctx" (createStorageContext), "fin"
\* (blob: service returned; file read and CAR packing), "pin" (executeUpload),
\* "then" (blob: pin resolved, .then callback queued), "done".
\* status: "pending", "201", "500", or "none" (the handler rejected: the
\* request is never answered)
NewTask(kind, name, ref, digest, bytes, cred) ==
  [kind |-> kind, name |-> name, ref |-> ref, digest |-> digest,
   bytes |-> bytes, cred |-> cred, pc |-> "new", status |-> "pending",
   synapse |-> 0, svc |-> 0, logOnly |-> FALSE]

\* getCacheKey
getCacheKey(cred) == cred

\* where a handler goes on once it holds the service
ResumePc(task) ==
  IF task.logOnly THEN "done"
  ELSE IF task.kind = "blob" THEN "fin"
  ELSE "pin"

\* getSynapseServiceForImage up to its first await: the two cache lookups
getSynapseServiceForImage(task) ==
  LET cacheKey == getCacheKey(task.cred)
      imageCacheKey == ImageKey(cacheKey, task.name)
  IN IF imageCacheKey \in DOMAIN imageDatasetCache
     THEN [task EXCEPT !.pc = ResumePc(task),
                       !.svc = imageDatasetCache[imageCacheKey].dataSetId,
                       !.synapse = imageDatasetCache[imageCacheKey].synapse]
     ELSE IF cacheKey \in DOMAIN synapseInstanceCache
     THEN [task EXCEPT !.pc = "svc_ctx",
                       !.synapse = synapseInstanceCache[cacheKey]]
     ELSE [task EXCEPT !.pc = "svc_init"]

\* UploadSession.getDigest
getDigest(session) == computeDigest(getData(session.chunks))

\* the sessions after the PUT body, when there is one, has been appended
appendPutBody(uploadId, chunkData) ==
  IF chunkData # <<>> /\ uploadId \in DOMAIN uploadSessions
  THEN [uploadSessions EXCEPT ![uploadId] = appendChunk(@, chunkData)]
  ELSE uploadSessions

\* PutBlobStatus with the bug of a completeUpload that does not verify the
\* declared digest
PutBlobStatusNoVerify(uploadId, digest, chunkData, cred) ==
  IF requireAuth(cred) = "401" THEN "401"
  ELSE IF digest = Null THEN "400"
  ELSE IF uploadId \notin DOMAIN uploadSessions THEN "throw"
  ELSE "await"

\* app.put('/v2/*/blobs/uploads/:uploadId'): what its synchronous part answers
PutBlobStatus(uploadId, digest, chunkData, cred) ==
  IF requireAuth(cred) = "401" THEN "401"
  ELSE IF digest = Null THEN "400"
  ELSE IF uploadId \notin DOMAIN uploadSessions
  THEN "throw"     \* appendChunk / completeUpload: session not found
  ELSE IF digest # getDigest(appendPutBody(uploadId, chunkData)[uploadId])
  THEN "throw"     \* completeUpload: digest mismatch
  ELSE "await"

\* app.put('/v2/*/blobs/uploads/:uploadId') up to its first await:
\* requireAuth, appendChunk, completeUpload, getSynapseServiceForImage
PutBlob(name, uploadId, digest, chunkData, cred) ==
  LET answer == PutBlobStatus(uploadId, digest, chunkData, cred)
      appended == appendPutBody(uploadId, chunkData)
  IN IF answer \in {"401", "400"} \/ uploadId \notin DOMAIN uploadSessions
     THEN UNCHANGED vars
     ELSE /\ chunkData # <<>> => Len(uploadSessions[uploadId].chunks) < MaxChunks
          /\ IF answer = "throw"
             THEN /\ uploadSessions' = appended
                  /\ UNCHANGED <<nextUpload, blobFiles, manifestFiles, mapVars,
                                 backendVars, pinned, tasks>>
             ELSE LET session == appended[uploadId]
                      blobData == getData(session.chunks)
                      actualDigest == getDigest(session)
                  IN /\ Len(tasks) < MaxPuts
                     /\ blobFiles' = Put(blobFiles, stripSha256(actualDigest),
                                         blobData)
                     /\ uploadSessions' = Remove(appended, uploadId)
                     /\ tasks' = Append(tasks, getSynapseServiceForImage(
                                   NewTask("blob", name, Null, actualDigest,
                                           blobData, cred)))
                     /\ UNCHANGED <<nextUpload, manifestFiles, mapVars,
                                    backendVars, pinned>>

\* a rejection of getSynapseServiceForImage reaches its caller: the blob PUT
\* handler rejects (no mapping record, no 201); the manifest chain's .catch
\* logs and, on an "Insufficient" message, asks for the service once more
svcFailed(task, insufficient) ==
  IF task.kind = "blob"
  THEN [task EXCEPT !.pc = "done", !.status = "none"]
  ELSE IF insufficient /\ ~task.logOnly
  THEN getSynapseServiceForImage([task EXCEPT !.logOnly = TRUE])
  ELSE [task EXCEPT !.pc = "done"]

\* initializeSynapse settles
SvcInitDone(t, ok, insufficient) ==
  /\ tasks[t].pc = "svc_init"
  /\ IF ok
     THEN /\ instances' = Append(instances, tasks[t].cred)
          /\ synapseInstanceCache' =
               Put(synapseInstanceCache, getCacheKey(tasks[t].cred),
                   Len(instances) + 1)
          /\ tasks' = [tasks EXCEPT ![t].synapse = Len(instances) + 1,
                                    ![t].pc = "svc_ctx"]
     ELSE /\ tasks' = [tasks EXCEPT ![t] = svcFailed(@, insufficient)]
          /\ UNCHANGED <<instances, synapseInstanceCache>>
  /\ UNCHANGED <<storeVars, mapVars, imageDatasetCache, datasets, pinned>>

\* createStorageContext settles: a new dataset exists at the backend
SvcCtxDone(t, ok, insufficient) ==
  /\ tasks[t].pc = "svc_ctx"
  /\ IF ok
     THEN /\ datasets' = Append(datasets, [cred |-> tasks[t].cred,
                                           imageName |-> tasks[t].name])
          /\ imageDatasetCache' =
               Put(imageDatasetCache,
                   ImageKey(getCacheKey(tasks[t].cred), tasks[t].name),
                   [synapse |-> tasks[t].synapse, dataSetId |-> Len(datasets) + 1])
          /\ tasks' = [tasks EXCEPT ![t].svc = Len(datasets) + 1,
                                    ![t].pc = ResumePc(tasks[t])]
     ELSE /\ tasks' = [tasks EXCEPT ![t] = svcFailed(@, insufficient)]
          /\ UNCHANGED <<datasets, imageDatasetCache>>
  /\ UNCHANGED <<storeVars, mapVars, synapseInstanceCache, instances, pinned>>

\* ImageMapping.updateMappings with the updater of the blob PUT handler
updateMappingsWrite(name, digest, value, written) ==
  /\ mappings' = setBlobEntry(mappings, name, digest, value)
  /\ mappingFile' = saveMappings(mappings', written)

\* updateMappings when the file is written
updateMappings(name, digest, value) ==
  updateMappingsWrite(name, digest, value, TRUE)

\* blob PUT after the service: getBlobPath, readFile, createCarFromBytes, the
\* first updateMappings, the 201, and the start of executeUpload
PutBlobFinishWrite(t, carOk, written) ==
  /\ tasks[t].pc = "fin"
  /\ IF getBlobPath(blobFiles, tasks[t].digest) = Null
     THEN /\ tasks' = [tasks EXCEPT ![t].pc = "done", ![t].status = "500"]
          /\ UNCHANGED mapVars
     ELSE IF ~carOk
     THEN /\ tasks' = [tasks EXCEPT ![t].pc = "done", ![t].status = "none"]
          /\ UNCHANGED mapVars
     ELSE /\ updateMappingsWrite(tasks[t].name, tasks[t].digest,
                                 tasks[t].digest, written)
          /\ tasks' = [tasks EXCEPT ![t].pc = "pin", ![t].status = "201"]
  /\ UNCHANGED <<storeVars, backendVars, pinned>>

\* the same when the mapping file is written
PutBlobFinish(t, carOk) == PutBlobFinishWrite(t, carOk, TRUE)

\* the content id a PUT handler hands to executeUpload
ipfsCidOf(task) == rootCid(task.bytes)

\* PinDone with the bug of a failure path that records the content id
PinDoneFailureWrites(t, ok, insufficient) ==
  /\ tasks[t].pc = "pin"
  /\ IF ok
     THEN /\ pinned' = pinned \cup {[cid |-> ipfsCidOf(tasks[t]),
                                     dataSetId |-> tasks[t].svc]}
          /\ tasks' = [tasks EXCEPT ![t].pc = IF tasks[t].kind = "blob"
                                              THEN "then" ELSE "done"]
          /\ UNCHANGED mapVars
     ELSE /\ UNCHANGED pinned
          /\ IF tasks[t].kind = "blob"
             THEN updateMappings(tasks[t].name, tasks[t].digest,
                                 ipfsCidOf(tasks[t]))
             ELSE UNCHANGED mapVars
          /\ tasks' = [tasks EXCEPT ![t] =
                         IF @.kind = "manifest" /\ insufficient
                         THEN getSynapseServiceForImage([@ EXCEPT !.logOnly = TRUE])
                         ELSE [@ EXCEPT !.pc = "done"]]
  /\ UNCHANGED <<storeVars, backendVars>>

\* PinDone with the bug of running the blob's .then callback after a failed pin
PinDoneRewritesOnFailure(t, ok, insufficient) ==
  /\ tasks[t].pc = "pin"
  /\ IF ok
     THEN pinned' = pinned \cup {[cid |-> ipfsCidOf(tasks[t]),
                                  dataSetId |-> tasks[t].svc]}
     ELSE UNCHANGED pinned
  /\ tasks' = [tasks EXCEPT ![t].pc = IF tasks[t].kind = "blob"
                                      THEN "then" ELSE "done"]
  /\ UNCHANGED <<storeVars, mapVars, backendVars>>

\* executeUpload settles.  Resolved: the piece is pinned in the task's dataset
\* and (blob) the .then callback is queued.  Rejected: .catch logs; the
\* manifest chain asks for the service again on an "Insufficient" message
PinDone(t, ok, insufficient) ==
  /\ tasks[t].pc = "pin"
  /\ IF ok
     THEN /\ pinned' = pinned \cup {[cid |-> ipfsCidOf(tasks[t]),
                                     dataSetId |-> tasks[t].svc]}
          /\ tasks' = [tasks EXCEPT ![t].pc = IF tasks[t].kind = "blob"
                                              THEN "then" ELSE "done"]
     ELSE /\ UNCHANGED pinned
          /\ tasks' = [tasks EXCEPT ![t] =
                         IF @.kind = "manifest" /\ insufficient
                         THEN getSynapseServiceForImage([@ EXCEPT !.logOnly = TRUE])
                         ELSE [@ EXCEPT !.pc = "done"]]
  /\ UNCHANGED <<storeVars, mapVars, backendVars>>

\* BlobRewrite with the bug of writing the local digest once more
BlobRewriteKeepsDigest(t) ==
  /\ t \in DOMAIN tasks
  /\ tasks[t].pc = "then"
  /\ updateMappings(tasks[t].name, tasks[t].digest, tasks[t].digest)
  /\ tasks' = [tasks EXCEPT ![t].pc = "done"]
  /\ UNCHANGED <<storeVars, backendVars, pinned>>

\* the .then callback of the blob pin: the second updateMappings
BlobRewriteWrite(t, written) ==
  /\ t \in DOMAIN tasks
  /\ tasks[t].pc = "then"
  /\ updateMappingsWrite(tasks[t].name, tasks[t].digest, ipfsCidOf(tasks[t]),
                         written)
  /\ tasks' = [tasks EXCEPT ![t].pc = "done"]
  /\ UNCHANGED <<storeVars, backendVars, pinned>>

\* the same when the mapping file is written
BlobRewrite(t) == BlobRewriteWrite(t, TRUE)

\* PutManifestStatus with the bug of not validating the body
PutManifestStatusNoValidation(manifestBytes, cred) ==
  IF requireAuth(cred) = "401" THEN "401" ELSE "await"

\* app.put('/v2/*/manifests/:reference'): what its synchronous part answers
PutManifestStatus(manifestBytes, cred) ==
  IF requireAuth(cred) = "401" THEN "401"
  ELSE IF manifestBytes = <<>> \/ ~JSONparse(manifestBytes).valid THEN "400"
  ELSE "await"

\* BlobStorage.saveManifest: the files afterwards
saveManifest(files, manifestBytes) ==
  Put(files, stripSha256(computeDigest(manifestBytes)), manifestBytes)

\* app.put('/v2/*/manifests/:reference') up to its first await: requireAuth,
\* the body checks, saveManifest
PutManifest(name, reference, manifestBytes, cred) ==
  IF PutManifestStatus(manifestBytes, cred) # "await"
  THEN UNCHANGED vars
  ELSE /\ Len(tasks) < MaxPuts
       /\ manifestFiles' = saveManifest(manifestFiles, manifestBytes)
       /\ tasks' = Append(tasks, [NewTask("manifest", name, reference,
                                          computeDigest(manifestBytes),
                                          manifestBytes, cred)
                                    EXCEPT !.pc = "car"])
       /\ UNCHANGED <<uploadSessions, nextUpload, blobFiles, mapVars,
                      backendVars, pinned>>

\* blobMappings of the manifest PUT: the layers that getBlobCid resolves
blobMappingsOf(m, name, layers) ==
  LET found == {layers[i] : i \in {j \in DOMAIN layers :
                                      /\ layers[j] # Null
                                      /\ getBlobCid(m, name, layers[j]) # Null}}
  IN [d \in found |-> Str(getBlobCid(m, name, d))]

\* the two addMapping calls of the manifest PUT; both receive the same
\* blobMappings object
addManifestMappings(m, task, ipfsCid, id) ==
  LET layers == parseManifestLayers(JSONparse(task.bytes))
      found == blobMappingsOf(m, task.name, layers)
      alias == task.ref # task.digest
      blobMappings == IF alias THEN SharedObj(found, id) ELSE Obj(found)
      m1 == addMapping(m, task.name, task.ref, ipfsCid, blobMappings)
  IN IF alias
     THEN addMapping(m1, task.name, task.digest, ipfsCid, blobMappings)
     ELSE m1

\* manifest PUT after createCarFromBytes: blobMappings, the addMapping calls,
\* the 201, and the start of the background upload
PutManifestFinishWrite(t, carOk, written) ==
  /\ tasks[t].pc = "car"
  /\ LET task == tasks[t]
         ipfsCid == IF carOk THEN ipfsCidOf(task) ELSE task.digest
         answered == [task EXCEPT !.status = "201"]
     IN /\ mappings' = addManifestMappings(mappings, task, ipfsCid, t)
        /\ mappingFile' = saveMappings(mappings', written)
        /\ tasks' = [tasks EXCEPT ![t] =
                       IF carOk THEN getSynapseServiceForImage(answered)
                       ELSE [answered EXCEPT !.pc = "done"]]
  /\ UNCHANGED <<storeVars, backendVars, pinned>>

\* the same when the mapping file is written
PutManifestFinish(t, carOk) == PutManifestFinishWrite(t, carOk, TRUE)

\* ------------------------------------------------------------------ reads
\* the gateway can serve a content id only when the backend holds it
Fetchable(cid) == \E p \in pinned : p.cid = cid

\* a response of a read handler
Answer(status, body, digest) ==
  [status |-> status, body |-> body, digest |-> digest]

\* GetBlobResponse with the bug of the manifest handler: no local fallback
GetBlobResponseNoFallback(name, digest, fetchOk) ==
  LET cid == getBlobCid(mappings, name, digest)
      blobPath == getBlobPath(blobFiles, digest)
      local == IF blobPath = Null THEN Answer("404", Null, Null)
               ELSE Answer("200", blobFiles[blobPath], digest)
  IN IF cid = Null THEN Answer("404", Null, Null)
     ELSE IF startsWithSha256(cid) THEN local
     ELSE IF fetchOk /\ Fetchable(cid) THEN Answer("200", DataOfCid(cid), digest)
     ELSE Answer("404", Null, Null)

\* app.get('/v2/*/blobs/:digest'): the response.  fetchOk: the gateway answers
\* 2xx within the timeout
GetBlobResponse(name, digest, fetchOk) ==
  LET cid == getBlobCid(mappings, name, digest)
      blobPath == getBlobPath(blobFiles, digest)
      local == IF blobPath = Null THEN Answer("404", Null, Null)
               ELSE Answer("200", blobFiles[blobPath], digest)
  IN IF cid = Null THEN Answer("404", Null, Null)
     ELSE IF startsWithSha256(cid) THEN local
     ELSE IF fetchOk /\ Fetchable(cid) THEN Answer("200", DataOfCid(cid), digest)
     ELSE local

\* app.get('/v2/*/manifests/:reference'): the response
GetManifestResponse(name, reference, fetchOk) ==
  LET cid == getManifestCid(mappings, name, reference)
      manifestPath == getManifestPath(manifestFiles, cid)
  IN IF cid = Null THEN Answer("404", Null, Null)
     ELSE IF startsWithSha256(cid)
     THEN IF manifestPath = Null THEN Answer("404", Null, Null)
          ELSE IF ~JSONparse(manifestFiles[manifestPath]).valid
          THEN Answer("500", Null, Null)
          ELSE Answer("200", manifestFiles[manifestPath], cid)
     ELSE IF fetchOk /\ Fetchable(cid)
     THEN IF ~JSONparse(DataOfCid(cid)).valid THEN Answer("500", Null, Null)
          ELSE Answer("200", DataOfCid(cid), computeDigest(DataOfCid(cid)))
     ELSE \* catch: 404, the local store is not consulted
          Answer("404", Null, Null)

\* app.head('/v2/*/manifests/:reference'): the response (no body)
HeadManifestResponse(name, reference) ==
  LET cid == getManifestCid(mappings, name, reference)
  IN IF cid = Null THEN Answer("404", Null, Null)
     ELSE IF startsWithSha256(cid) /\ getManifestPath(manifestFiles, cid) = Null
     THEN Answer("404", Null, Null)
     ELSE Answer("200", Null, cid)

\* app.head('/v2/*/blobs/:digest'): the response (no body, no digest header)
HeadBlobResponse(name, digest) ==
  LET cid == getBlobCid(mappings, name, digest)
  IN IF cid = Null THEN Answer("404", Null, Null)
     ELSE IF startsWithSha256(cid) /\ getBlobPath(blobFiles, digest) = Null
     THEN Answer("404", Null, Null)
     ELSE Answer("200", Null, Null)

\* the read handlers leave the state of the server as it is
GetBlob(name, digest, fetchOk) ==
  /\ GetBlobResponse(name, digest, fetchOk).status \in {"200", "404"}
  /\ UNCHANGED vars

GetManifest(name, reference, fetchOk) ==
  /\ GetManifestResponse(name, reference, fetchOk).status \in {"200", "404", "500"}
  /\ UNCHANGED vars

HeadManifest(name, reference) ==
  /\ HeadManifestResponse(name, reference).status \in {"200", "404"}
  /\ UNCHANGED vars

HeadBlob(name, digest) ==
  /\ HeadBlobResponse(name, digest).status \in {"200", "404"}
  /\ UNCHANGED vars

\* --------------------------------------------------------- specification
ClientCreds == Creds \cup {Null}
ClientDigests == {computeDigest(b) : b \in AllData}
ClientRefs == Tags \cup {computeDigest(<<7>>)}

Next ==
  \/ \E cred \in ClientCreds : RequireAuthRejects(cred)
  \/ \E name \in Images, cred \in Creds : PostUpload(name, cred)
  \/ \E name \in Images, u \in 1..MaxUploads, c \in Chunks \cup {<<>>},
        cred \in Creds : PatchUpload(name, u, c, cred)
  \/ \E name \in Images, u \in 1..MaxUploads, d \in ClientDigests \cup {Null},
        c \in Chunks \cup {<<>>}, cred \in Creds : PutBlob(name, u, d, c, cred)
  \/ \E t \in DOMAIN tasks, ok \in BOOLEAN, insufficient \in BOOLEAN :
        SvcInitDone(t, ok, insufficient)
  \/ \E t \in DOMAIN tasks, ok \in BOOLEAN, insufficient \in BOOLEAN :
        SvcCtxDone(t, ok, insufficient)
  \/ \E t \in DOMAIN tasks, carOk \in BOOLEAN : PutBlobFinish(t, carOk)
  \/ \E t \in DOMAIN tasks, ok \in BOOLEAN, insufficient \in BOOLEAN :
        PinDone(t, ok, insufficient)
  \/ \E t \in DOMAIN tasks : BlobRewrite(t)
  \/ \E name \in Images, r \in ClientRefs, b \in ManifestBodies,
        cred \in Creds : PutManifest(name, r, b, cred)
  \/ \E t \in DOMAIN tasks, carOk \in BOOLEAN : PutManifestFinish(t, carOk)
  \/ \E name \in Images, d \in ClientDigests, fetchOk \in BOOLEAN :
        GetBlob(name, d, fetchOk)
  \/ \E name \in Images, r \in ClientRefs, fetchOk \in BOOLEAN :
        GetManifest(name, r, fetchOk)
  \/ \E name \in Images, r \in ClientRefs : HeadManifest(name, r)
  \/ \E name \in Images, d \in ClientDigests : HeadBlob(name, d)

Spec == Init /\ [][Next]_vars

\* a restart on a mapping file that an earlier run of the server wrote (blob
\* PUT of LayerData to image "a", pin completed), with the storage directory
\* empty: the content is held by the backend only
LoadedFile ==
  <<"a">> :> Obj(BLOBS :> Obj(computeDigest(LayerData) :> Str(rootCid(LayerData))))

InitLoaded ==
  InitWith(LoadedFile, {[cid |-> rootCid(LayerData), dataSetId |-> 0]})

SpecLoaded == InitLoaded /\ [][Next]_vars

\* the .then callback of a settled promise runs
Fairness == \A t \in 1..MaxPuts : WF_vars(BlobRewrite(t))

SpecFair == Spec /\ Fairness

\* ------------------------------------------------------------ properties
BlobTasks == {t \in DOMAIN tasks : tasks[t].kind = "blob"}
ManifestTasks == {t \in DOMAIN tasks : tasks[t].kind = "manifest"}

\* lookupBlob / lookupManifest of the specification
lookupBlob(image, digest) == getBlobCid(mappings, image, digest)
lookupManifest(image, ref) == getManifestCid(mappings, image, ref)

\* a remote content id: a mapping value that is not a sha256: digest
IsContentId(v) == v # Null /\ ~startsWithSha256(v)

\* the request part of a blob PUT is over: answered, or rejected for good
Settled(t) == tasks[t].pc \in {"pin", "then", "done"}

\* C1: every blob PUT whose declared digest matched the uploaded bytes was
\* answered 201, and a GET of that digest under that image returns 200 with
\* exactly the uploaded bytes, whatever the gateway does.
C1_UploadThenGet ==
  \A t \in BlobTasks :
    Settled(t) =>
      /\ tasks[t].status = "201"
      /\ \A fetchOk \in BOOLEAN :
           GetBlobResponse(tasks[t].name, tasks[t].digest, fetchOk)
             = Answer("200", tasks[t].bytes, tasks[t].digest)

\* the mapping m records the entry a PUT pushed
RecordedIn(m, task) ==
  IF task.kind = "blob"
  THEN getBlobCid(m, task.name, task.digest) # Null
  ELSE getManifestCid(m, task.name, task.ref) # Null

\* C2: a failure of a remote-backend step (base-service initialisation,
\* dataset creation or pin) leaves the PUT it belongs to acknowledged with 201 and
\* its entry recorded in the mapping.
C2_AckOnLocalDurability ==
  [][\A t \in DOMAIN tasks, insufficient \in BOOLEAN :
       (\/ SvcInitDone(t, FALSE, insufficient)
        \/ SvcCtxDone(t, FALSE, insufficient)
        \/ PinDone(t, FALSE, insufficient))
         => /\ tasks'[t].status = "201"
            /\ RecordedIn(mappings', tasks'[t])]_vars

\* C3: once the pin of a blob has completed successfully, lookupBlob of its
\* image and digest eventually returns the remote content id.
C3_PinRewrite ==
  \A t \in 1..MaxPuts :
    (t \in BlobTasks /\ tasks[t].pc = "then")
      ~> (/\ t \in BlobTasks
          /\ lookupBlob(tasks[t].name, tasks[t].digest) = ipfsCidOf(tasks[t]))

\* two PUTs of the same digest to the same image, both pins completed and
\* both rewrites done, and the lookup returns the content id
C3_Witness ==
  \E t1, t2 \in BlobTasks :
    /\ t1 # t2
    /\ tasks[t1].name = tasks[t2].name
    /\ tasks[t1].digest = tasks[t2].digest
    /\ tasks[t1].pc = "done" /\ tasks[t2].pc = "done"
    /\ \A t \in {t1, t2} : \E p \in pinned :
         p.cid = ipfsCidOf(tasks[t]) /\ p.dataSetId = tasks[t].svc /\ p.dataSetId # 0
    /\ lookupBlob(tasks[t1].name, tasks[t1].digest) = ipfsCidOf(tasks[t1])

\* the bytes a digest names
DataOfDigest(digest) ==
  IF \E b \in AllData : computeDigest(b) = digest
  THEN CHOOSE b \in AllData : computeDigest(b) = digest
  ELSE Null

\* every blob entry is absent, the digest, or the content id of the bytes
BlobValues ==
  \A image \in Images, d \in ClientDigests :
    lookupBlob(image, d) \in {Null, d, rootCid(DataOfDigest(d))}

\* C4: the value of a blob entry is absent, the digest, or the content id of
\* the bytes; and while a blob PUT is answered 201 and its pin has not
\* completed, lookupBlob of its image and digest returns the digest.
C4_BlobValue ==
  /\ BlobValues
  /\ \A t \in BlobTasks :
       (tasks[t].status = "201" /\ tasks[t].pc = "pin")
         => lookupBlob(tasks[t].name, tasks[t].digest) = tasks[t].digest

\* the remote pin of a manifest PUT has not completed
PinOutstanding(t) ==
  tasks[t].pc \in {"svc_init", "svc_ctx", "pin"} /\ ~tasks[t].logOnly

\* C5: while a manifest PUT is answered 201 and its remote pin has not
\* completed, lookupManifest of (image, ref) and of (image, manifestDigest)
\* returns the manifest digest.
C5_ManifestRecordsDigest ==
  \A t \in ManifestTasks :
    (tasks[t].status = "201" /\ PinOutstanding(t))
      => /\ lookupManifest(tasks[t].name, tasks[t].ref) = tasks[t].digest
         /\ lookupManifest(tasks[t].name, tasks[t].digest) = tasks[t].digest

\* C6: every entry the mapping resolves (manifest references and blobs) can
\* be read through the registry with 200.
C6_EveryRefRetrievable ==
  /\ \A image \in Images, ref \in ClientRefs :
       lookupManifest(image, ref) # Null
         => \E fetchOk \in BOOLEAN :
              GetManifestResponse(image, ref, fetchOk).status = "200"
  /\ \A image \in Images, d \in ClientDigests :
       lookupBlob(image, d) # Null
         => \E fetchOk \in BOOLEAN :
              GetBlobResponse(image, d, fetchOk).status = "200"

\* C7: after a manifest PUT under a tag, GET by the tag and GET by the digest
\* resolve to the same mapping value and both return the pushed body with
\* Docker-Content-Digest = the digest, whatever the gateway does.
C7_TagAndDigest ==
  \A t \in ManifestTasks :
    (tasks[t].status = "201" /\ tasks[t].ref \in Tags)
      => /\ lookupManifest(tasks[t].name, tasks[t].ref)
              = lookupManifest(tasks[t].name, tasks[t].digest)
         /\ \A r \in {tasks[t].ref, tasks[t].digest}, fetchOk \in BOOLEAN :
              GetManifestResponse(tasks[t].name, r, fetchOk)
                = Answer("200", tasks[t].bytes, tasks[t].digest)

\* C8: the backend holds at most one dataset per (credential, image) and at
\* most one base service per credential.
C8_OneDatasetPerImage ==
  /\ \A c \in Creds, i \in Images :
       Cardinality({k \in DOMAIN datasets :
                      datasets[k] = [cred |-> c, imageName |-> i]}) <= 1
  /\ \A c \in Creds :
       Cardinality({k \in DOMAIN instances : instances[k] = c}) <= 1

\* the local answer of the blob GET for a digest
LocalBlobAnswer(digest) ==
  IF getBlobPath(blobFiles, digest) = Null
  THEN Answer("404", Null, Null)
  ELSE Answer("200", blobFiles[getBlobPath(blobFiles, digest)], digest)

\* C9: when lookupBlob is a remote content id and the gateway fetch fails,
\* the blob GET returns 200 with the local bytes if the local blob exists and
\* 404 if it does not.
C9_BlobFallback ==
  \A image \in Images, d \in ClientDigests :
    IsContentId(lookupBlob(image, d))
      => GetBlobResponse(image, d, FALSE) = LocalBlobAnswer(d)

\* both cases at once: a content id without a local blob (404) and a content
\* id with its local blob (200 with the local bytes)
C9_Witness ==
  /\ \E image \in Images, d \in ClientDigests :
       /\ IsContentId(lookupBlob(image, d))
       /\ getBlobPath(blobFiles, d) = Null
       /\ GetBlobResponse(image, d, FALSE).status = "404"
  /\ \E image \in Images, d \in ClientDigests :
       /\ IsContentId(lookupBlob(image, d))
       /\ getBlobPath(blobFiles, d) # Null
       /\ GetBlobResponse(image, d, FALSE) = Answer("200", DataOfDigest(d), d)

\* C10: when lookupManifest is a remote content id and the gateway fetch
\* fails, the manifest GET returns 200 with the locally stored bytes of that
\* manifest if the local store has them, and 404 if it does not.
C10_ManifestFallback ==
  \A image \in Images, ref \in ClientRefs :
    LET cid == lookupManifest(image, ref)
        path == getManifestPath(manifestFiles, computeDigest(DataOfCid(cid)))
    IN IsContentId(cid)
         => GetManifestResponse(image, ref, FALSE)
              = IF path = Null THEN Answer("404", Null, Null)
                ELSE Answer("200", manifestFiles[path],
                            computeDigest(manifestFiles[path]))

\* the declared digest of a blob PUT on an existing session differs from the
\* digest of the session's bytes (the PUT body included)
DigestMismatch(uploadId, digest, chunkData) ==
  /\ uploadId \in DOMAIN uploadSessions
  /\ digest # Null
  /\ digest # getDigest(appendPutBody(uploadId, chunkData)[uploadId])

\* C11: a blob PUT on an existing session whose declared digest differs from
\* the digest computed over the session's bytes is answered 400.
C11_MismatchIs400 ==
  \A u \in DOMAIN uploadSessions, d \in ClientDigests,
     c \in Chunks \cup {<<>>}, cred \in Creds :
    DigestMismatch(u, d, c) => PutBlobStatus(u, d, c, cred) = "400"

\* C12: a blob PUT whose declared digest differs from the computed digest
\* writes nothing to the mapping (memory and file), writes no file to the
\* local blob store and starts no task that could record an entry later.
C12_MismatchWritesNothing ==
  [][\/ UNCHANGED <<mappings, mappingFile, blobFiles, tasks>>
     \/ \A name \in Images, u \in DOMAIN uploadSessions, d \in ClientDigests,
           c \in Chunks \cup {<<>>}, cred \in Creds :
          ~(DigestMismatch(u, d, c) /\ PutBlob(name, u, d, c, cred))]_vars

\* a session holding bytes on which a PUT declaring another digest is refused,
\* with no file and no entry for the declared or the computed digest
C12_Witness ==
  \E u \in DOMAIN uploadSessions, d \in ClientDigests, cred \in Creds :
    LET actual == getDigest(uploadSessions[u])
    IN /\ uploadSessions[u].chunks # <<>>
       /\ DigestMismatch(u, d, <<>>)
       /\ PutBlobStatus(u, d, <<>>, cred) = "throw"
       /\ getBlobPath(blobFiles, d) = Null
       /\ getBlobPath(blobFiles, actual) = Null
       /\ \A image \in Images :
            lookupBlob(image, d) = Null /\ lookupBlob(image, actual) = Null

\* C13: when CAR packing of the pushed bytes fails, the PUT leaves the entry
\* at the local digest (blob: the image's blob entry; manifest: (image, ref)
\* and (image, manifestDigest)), attempts no pin, and the GET of what was
\* pushed answers 200 with the local bytes whatever the gateway does.
C13_PackFailureKeepsLocal ==
  [][\A t \in DOMAIN tasks :
       /\ (getBlobPath(blobFiles, tasks[t].digest) # Null /\ PutBlobFinish(t, FALSE))
            => /\ getBlobCid(mappings', tasks[t].name, tasks[t].digest)
                    = tasks[t].digest
               /\ tasks'[t].pc = "done"
               /\ \A fetchOk \in BOOLEAN :
                    GetBlobResponse(tasks[t].name, tasks[t].digest, fetchOk)'
                      = Answer("200", tasks[t].bytes, tasks[t].digest)
       /\ PutManifestFinish(t, FALSE)
            => /\ \A r \in {tasks[t].ref, tasks[t].digest} :
                    getManifestCid(mappings', tasks[t].name, r) = tasks[t].digest
               /\ tasks'[t].pc = "done"
               /\ \A r \in {tasks[t].ref, tasks[t].digest}, fetchOk \in BOOLEAN :
                    GetManifestResponse(tasks[t].name, r, fetchOk)'
                      = Answer("200", tasks[t].bytes, tasks[t].digest)]_vars

blobsTable(m, image) ==
  IF /\ image \in DOMAIN m
     /\ m[image].kind = "obj"
     /\ In(BLOBS, m[image])
     /\ m[image].props[BLOBS].kind = "obj"
  THEN DOMAIN m[image].props[BLOBS].props
  ELSE {}

\* C15: when a manifest PUT is accepted (201), every layer digest listed in
\* the manifest is at that moment a key of the image's blobs table.
C15_LayersInBlobsTable ==
  [][\A t \in DOMAIN tasks, carOk \in BOOLEAN :
       PutManifestFinish(t, carOk)
         => LET layers == parseManifestLayers(JSONparse(tasks[t].bytes))
            IN /\ tasks'[t].status = "201"
               /\ \A i \in DOMAIN layers :
                    layers[i] \in blobsTable(mappings', tasks[t].name)]_vars

\* a restart on a mapping file in the format addMapping writes, holding one
\* manifest entry with its blob references: { "a:t": { manifest_cid, blobs } }
LoadedManifestFile ==
  ImageKey(<<"a">>, <<"t">>) :>
    Obj(MANIFEST_CID :> Str(rootCid(<<7>>))
        @@ BLOBS :> Obj(computeDigest(LayerData) :> Str(rootCid(LayerData))))

InitLoadedManifest == InitWith(LoadedManifestFile, {})

SpecLoadedManifest == InitLoadedManifest /\ [][Next]_vars

\* C16: the blob references stored with a manifest mapping are retrievable by
\* blob lookup: for every entry "<image>:<ref>" holding {manifest_cid, blobs},
\* added by addMapping or loaded from the mapping file, getBlobCid(image, d)
\* returns blobs[d] for every digest d of blobs.
C16_ManifestBlobsRetrievable ==
  \A image \in Images, ref \in ClientRefs :
    LET key == ImageKey(image, ref)
    IN (/\ key \in DOMAIN mappings
        /\ mappings[key].kind = "obj"
        /\ In(MANIFEST_CID, mappings[key])
        /\ In(BLOBS, mappings[key]))
         => \A d \in DOMAIN mappings[key].props[BLOBS].props :
              getBlobCid(mappings, image, d)
                = mappings[key].props[BLOBS].props[d].s

\* the references of the clients that are digests
DigestRefs == {r \in ClientRefs : startsWithSha256(r)}

\* a manifest PUT for the image whose manifest has the digest was answered 201
AcceptedManifest(image, digest) ==
  \E t \in ManifestTasks :
    /\ tasks[t].status = "201"
    /\ tasks[t].name = image
    /\ tasks[t].digest = digest

\* C17: starting from an empty mapping, lookupManifest(image, r) for a digest
\* reference r is non-null if and only if a manifest whose digest is r was
\* accepted by a manifest PUT for that image.
C17_PullByDigestIff ==
  \A image \in Images, r \in DigestRefs :
    lookupManifest(image, r) # Null <=> AcceptedManifest(image, r)

\* the server on a disk whose writes can fail: every saveMappings either
\* writes the whole document or leaves the file cut short
NextDisk ==
  \/ Next
  \/ \E t \in DOMAIN tasks, carOk \in BOOLEAN : PutBlobFinishWrite(t, carOk, FALSE)
  \/ \E t \in DOMAIN tasks : BlobRewriteWrite(t, FALSE)
  \/ \E t \in DOMAIN tasks, carOk \in BOOLEAN :
        PutManifestFinishWrite(t, carOk, FALSE)

SpecDisk == Init /\ [][NextDisk]_vars

\* C18: at every point in time, a failure in the middle of persisting a
\* mutation included, the content of the mapping file is the previous complete
\* document or the new complete one, never a partial document.
C18_FileNeverPartial ==
  [][/\ mappingFile' \in {mappingFile, JSONstringify(mappings')}
     /\ mappingFile' # TruncatedFile]_vars

\* every response a push route gives to a request without credentials is the
\* 401 of requireAuth with its WWW-Authenticate header
PushRejected ==
  /\ "WWW-Authenticate" \in requireAuthHeaders(Null)
  /\ \A name \in Images : PostUploadStatus(name, Null) = "401"
  /\ \A u \in 1..MaxUploads, c \in Chunks \cup {<<>>} :
       /\ PatchUploadStatus(u, c, Null) = "401"
       /\ \A d \in ClientDigests \cup {Null} : PutBlobStatus(u, d, c, Null) = "401"
  /\ \A b \in ManifestBodies : PutManifestStatus(b, Null) = "401"

\* the read routes have no authentication middleware: they answer 200 or 404
\* (the manifest GET also 500), never 401
ReadsServed ==
  /\ \A name \in Images, d \in ClientDigests :
       /\ HeadBlobResponse(name, d).status \in {"200", "404"}
       /\ \A fetchOk \in BOOLEAN :
            GetBlobResponse(name, d, fetchOk).status \in {"200", "404"}
  /\ \A name \in Images, r \in ClientRefs :
       /\ HeadManifestResponse(name, r).status \in {"200", "404"}
       /\ \A fetchOk \in BOOLEAN :
            GetManifestResponse(name, r, fetchOk).status \in {"200", "404", "500"}

\* a step of a push handler on a request without credentials
PushWithoutCredentials ==
  \/ \E name \in Images : PostUpload(name, Null)
  \/ \E name \in Images, u \in 1..MaxUploads, c \in Chunks \cup {<<>>} :
       \/ PatchUpload(name, u, c, Null)
       \/ \E d \in ClientDigests \cup {Null} : PutBlob(name, u, d, c, Null)
  \/ \E name \in Images, r \in ClientRefs, b \in ManifestBodies :
       PutManifest(name, r, b, Null)

\* C19: every POST, PATCH and PUT of the push routes without credentials is
\* answered 401 with a WWW-Authenticate header and changes no state (sessions,
\* blob and manifest stores, mapping); GET and HEAD of manifests and blobs are
\* served without credentials.
C19_PushNeedsCredentials ==
  /\ [](PushRejected /\ ReadsServed)
  /\ [][PushWithoutCredentials => UNCHANGED vars]_vars

\* an open session with bytes and a pushed blob: without credentials the PATCH
\* and the PUT that would go through with them are answered 401, and the blob
\* is served
C19_Witness ==
  \E u \in DOMAIN uploadSessions, cred \in Creds, c \in Chunks,
     name \in Images, d \in ClientDigests :
    /\ PatchUploadStatus(u, c, cred) = "202"
    /\ PatchUploadStatus(u, c, Null) = "401"
    /\ PutBlobStatus(u, getDigest(uploadSessions[u]), <<>>, cred) = "await"
    /\ PutBlobStatus(u, getDigest(uploadSessions[u]), <<>>, Null) = "401"
    /\ PostUploadStatus(name, Null) = "401"
    /\ GetBlobResponse(name, d, FALSE).status = "200"
    /\ HeadBlobResponse(name, d).status = "200"

\* C20: an authenticated PATCH with a non-empty body addressed to an upload id
\* that is not in the session table is answered 404.
C20_UnknownUploadIs404 ==
  \A u \in (1..MaxUploads) \ DOMAIN uploadSessions, c \in Chunks, cred \in Creds :
    PatchUploadStatus(u, c, cred) = "404"

\* ------------------------------------------- the upload sessions on their own
\* the session table and the blob store under POST, PATCH and
\* BlobStorage.completeUpload, with sessions of several chunks of unequal length
MaxSessionUploads == 2    \* upload sessions ever started
MaxSessionOpen    == 2    \* upload sessions open at the same time
MaxSessionChunks  == 2    \* chunks appended to one session

SessionChunks == {<<1>>, <<2, 3>>}

\* the digests a caller of completeUpload expects
SessionDigests ==
  {computeDigest(getData(cs)) : cs \in SeqsUpTo(SessionChunks, MaxSessionChunks)}

\* completeUpload with the bug of leaving the session in the table
completeUploadKeepsSession(sessions, files, uploadId, digest) ==
  IF uploadId \notin DOMAIN sessions
  THEN [threw |-> TRUE, error |-> "not found", result |-> Null,
        sessions |-> sessions, files |-> files]
  ELSE LET blobData == getData(sessions[uploadId].chunks)
           actualDigest == getDigest(sessions[uploadId])
       IN IF digest # Null /\ digest # actualDigest
          THEN [threw |-> TRUE, error |-> "Digest mismatch", result |-> Null,
                sessions |-> sessions, files |-> files]
          ELSE [threw |-> FALSE, error |-> "", result |-> actualDigest,
                sessions |-> sessions,
                files |-> Put(files, stripSha256(actualDigest), blobData)]

\* completeUpload with the bug of dropping the session on a mismatch
completeUploadDropsOnMismatch(sessions, files, uploadId, digest) ==
  IF uploadId \notin DOMAIN sessions
  THEN [threw |-> TRUE, error |-> "not found", result |-> Null,
        sessions |-> sessions, files |-> files]
  ELSE LET blobData == getData(sessions[uploadId].chunks)
           actualDigest == getDigest(sessions[uploadId])
       IN IF digest # Null /\ digest # actualDigest
          THEN [threw |-> TRUE, error |-> "Digest mismatch", result |-> Null,
                sessions |-> Remove(sessions, uploadId), files |-> files]
          ELSE [threw |-> FALSE, error |-> "", result |-> actualDigest,
                sessions |-> Remove(sessions, uploadId),
                files |-> Put(files, stripSha256(actualDigest), blobData)]

\* completeUpload with the bug of not verifying the expected digest
completeUploadNoVerify(sessions, files, uploadId, digest) ==
  IF uploadId \notin DOMAIN sessions
  THEN [threw |-> TRUE, error |-> "not found", result |-> Null,
        sessions |-> sessions, files |-> files]
  ELSE LET blobData == getData(sessions[uploadId].chunks)
           actualDigest == getDigest(sessions[uploadId])
       IN IF FALSE
          THEN [threw |-> TRUE, error |-> "Digest mismatch", result |-> Null,
                sessions |-> sessions, files |-> files]
          ELSE [threw |-> FALSE, error |-> "", result |-> actualDigest,
                sessions |-> Remove(sessions, uploadId),
                files |-> Put(files, stripSha256(actualDigest), blobData)]

\* BlobStorage.completeUpload(uploadId, digest?): what it returns or the Error
\* it throws, and the session table and blob directory it leaves.  Null is a
\* digest that is not supplied (undefined, or the empty string)
completeUpload(sessions, files, uploadId, digest) ==
  IF uploadId \notin DOMAIN sessions
  THEN [threw |-> TRUE, error |-> "not found", result |-> Null,
        sessions |-> sessions, files |-> files]
  ELSE LET blobData == getData(sessions[uploadId].chunks)
           actualDigest == getDigest(sessions[uploadId])
       IN IF digest # Null /\ digest # actualDigest
          THEN [threw |-> TRUE, error |-> "Digest mismatch", result |-> Null,
                sessions |-> sessions, files |-> files]
          ELSE [threw |-> FALSE, error |-> "", result |-> actualDigest,
                sessions |-> Remove(sessions, uploadId),
                files |-> Put(files, stripSha256(actualDigest), blobData)]

\* a call of blobStorage.completeUpload
CompleteUpload(uploadId, digest) ==
  LET r == completeUpload(uploadSessions, blobFiles, uploadId, digest)
  IN /\ uploadSessions' = r.sessions
     /\ blobFiles' = r.files
     /\ UNCHANGED <<nextUpload, manifestFiles, mapVars, backendVars, pinned,
                    tasks>>

\* the Authorization header of a request: absent, or present with a value
NoHeader == [present |-> FALSE, value |-> Null]
Header(v) == [present |-> TRUE, value |-> v]
AuthHeaders == {NoHeader, Header(Null), Header(<<"Basic", "x">>), Header(<<"junk">>)}

\* req.headers.authorization
headersAuthorization(h) == IF h.present THEN h.value ELSE Null

\* GetV2Response with the bug of never challenging
GetV2ResponseOpen(h) ==
  [status |-> "200", WWWAuthenticate |-> "", body |-> "{\"version\":\"2.0\"}"]

\* app.get('/v2/'): the response
GetV2Response(h) ==
  IF headersAuthorization(h) = Null
  THEN [status |-> "401", WWWAuthenticate |-> "Basic realm=\"PinCeR Registry\"",
        body |-> "{\"errors\":[{\"code\":\"UNAUTHORIZED\"}]}"]
  ELSE [status |-> "200", WWWAuthenticate |-> "", body |-> "{\"version\":\"2.0\"}"]

\* app.head('/v2/'): the response
HeadV2Response(h) ==
  IF headersAuthorization(h) = Null
  THEN [status |-> "401", WWWAuthenticate |-> "Basic realm=\"PinCeR Registry\"",
        body |-> ""]
  ELSE [status |-> "200", WWWAuthenticate |-> "", body |-> ""]

\* app.get('/v2/') and app.head('/v2/'): optionalAuth attaches the credentials
\* to the request object, the handler answers
GetV2(h) ==
  /\ GetV2Response(h).status \in {"200", "401"}
  /\ UNCHANGED vars

HeadV2(h) ==
  /\ HeadV2Response(h).status \in {"200", "401"}
  /\ UNCHANGED vars

NextSessions ==
  \/ \E name \in Images, cred \in Creds :
        PostUploadWithin(name, cred, MaxSessionUploads, MaxSessionOpen)
  \/ \E name \in Images, u \in 1..MaxSessionUploads,
        c \in SessionChunks \cup {<<>>}, cred \in Creds :
        PatchUploadWithin(name, u, c, cred, MaxSessionChunks)
  \/ \E u \in 1..MaxSessionUploads, d \in SessionDigests \cup {Null} :
        CompleteUpload(u, d)
  \/ \E h \in AuthHeaders : GetV2(h)
  \/ \E h \in AuthHeaders : HeadV2(h)

SpecSessions == Init /\ [][NextSessions]_vars

C23_CompleteUpload ==
  [][\A u \in DOMAIN uploadSessions :
       \A d \in {Null, getDigest(uploadSessions[u])} :
         CompleteUpload(u, d)
           => LET r == completeUpload(uploadSessions, blobFiles, u, d)
                  data == getData(uploadSessions[u].chunks)
              IN /\ ~r.threw
                 /\ r.result = computeDigest(data)
                 /\ getBlobPath(blobFiles', r.result) # Null
                 /\ blobFiles'[getBlobPath(blobFiles', r.result)] = data
                 /\ \A f \in DOMAIN blobFiles :
                      f # stripSha256(r.result)
                        => f \in DOMAIN blobFiles' /\ blobFiles'[f] = blobFiles[f]
                 /\ uploadSessions' = Remove(uploadSessions, u)]_vars

\* a blob of two chunks has been finalized and its session is gone, while
\* another session is open
C23_Witness ==
  /\ stripSha256(computeDigest(<<1, 2, 3>>)) \in DOMAIN blobFiles
  /\ blobFiles[stripSha256(computeDigest(<<1, 2, 3>>))] = <<1, 2, 3>>
  /\ Cardinality(DOMAIN uploadSessions) = 1
  /\ nextUpload = 2

\* C25: GET and HEAD /v2/ answer 401 with WWW-Authenticate: Basic realm=...
\* when the request has no Authorization header or one with an empty value,
\* and 200 (GET with the body {"version":"2.0"}) when the header has a
\* non-empty value; neither changes any state.
C25_V2Challenge ==
  /\ [](\A h \in AuthHeaders :
          LET g == GetV2Response(h)
              hd == HeadV2Response(h)
          IN IF ~h.present \/ h.value = Null
             THEN /\ g.status = "401" /\ hd.status = "401"
                  /\ g.WWWAuthenticate = "Basic realm=\"PinCeR Registry\""
                  /\ hd.WWWAuthenticate = "Basic realm=\"PinCeR Registry\""
             ELSE /\ g.status = "200" /\ hd.status = "200"
                  /\ g.body = "{\"version\":\"2.0\"}")
  /\ [][\A h \in AuthHeaders : GetV2(h) \/ HeadV2(h) => UNCHANGED vars]_vars

\* the server holds a session and a blob when /v2/ is asked with and without
\* the header
C25_Witness ==
  /\ uploadSessions # <<>>
  /\ blobFiles # <<>>
  /\ GetV2Response(NoHeader).status = "401"
  /\ GetV2Response(Header(Null)).status = "401"
  /\ HeadV2Response(Header(<<"Basic", "x">>)).status = "200"

\* C25 as stated: in every state of the server, 401 exactly when the request
\* has no Authorization header and 200 whenever the header is present
C25_AsStated ==
  nextUpload \in Nat =>
    \A h \in AuthHeaders :
      /\ ~h.present => GetV2Response(h).status = "401" /\ HeadV2Response(h).status = "401"
      /\ h.present => GetV2Response(h).status = "200" /\ HeadV2Response(h).status = "200"

\* C24: an authenticated manifest PUT whose body is empty or is not valid JSON
\* is answered 400 and changes nothing: the manifest directory, the mapping in
\* memory and on disk, the pins and the scheduled work are as before.
C24_BadManifestIs400 ==
  /\ [](\A b \in ManifestBodies, cred \in Creds :
          (b = <<>> \/ ~JSONparse(b).valid) => PutManifestStatus(b, cred) = "400")
  /\ [][\/ UNCHANGED <<manifestFiles, mappings, mappingFile, tasks, pinned>>
        \/ \A name \in Images, r \in ClientRefs, b \in ManifestBodies,
              cred \in Creds :
             ~(/\ b = <<>> \/ ~JSONparse(b).valid
               /\ PutManifest(name, r, b, cred))]_vars

\* a manifest is recorded for tag t of image a and stored, one more PUT would
\* be taken, and a PUT to that tag with a body that is not JSON is answered 400
C24_Witness ==
  /\ getManifestCid(mappings, <<"a">>, <<"t">>) # Null
  /\ manifestFiles # <<>>
  /\ Len(tasks) < MaxPuts
  /\ \E cred \in Creds :
       /\ PutManifestStatus(<<9>>, cred) = "400"
       /\ PutManifestStatus(<<>>, cred) = "400"
       /\ PutManifestStatus(<<7>>, cred) = "await"

\* C26: once the blobs table of an image holds a remote content id for a
\* digest, no step changes that value back to the digest.
C26_BlobValueMonotonic ==
  [][\A image \in Images, d \in ClientDigests :
       IsContentId(lookupBlob(image, d)) => lookupBlob(image, d)' # d]_vars

\* every file of the blob directory was written by a blob PUT that was
\* answered 201 or is still being handled
FilesOfAnsweredPuts ==
  \A f \in DOMAIN blobFiles :
    \E t \in BlobTasks :
      /\ stripSha256(tasks[t].digest) = f
      /\ tasks[t].status \in {"201", "pending"}

\* C27: a blob PUT that is not answered 201 leaves the session table, the blob
\* directory and the mapping as they were: every file of the blob directory
\* belongs to a PUT that was answered 201 or is still being handled, and a PUT
\* whose digest does not match changes none of the three.
C27_BlobPutAllOrNothing ==
  /\ []FilesOfAnsweredPuts
  /\ [][\A name \in Images, u \in DOMAIN uploadSessions, d \in ClientDigests,
          c \in Chunks \cup {<<>>}, cred \in Creds :
          (DigestMismatch(u, d, c) /\ PutBlob(name, u, d, c, cred))
            => UNCHANGED <<uploadSessions, blobFiles, mappings>>]_vars

\* C28: for every PUT the local file is written before anything else, the
\* mapping entry is recorded when the 201 is sent, the pin (and, for a
\* manifest, the acquisition of the service) is started only after the 201,
\* and the mapping rewrite of a blob runs only after that blob's pin succeeded.
C28_PushOrder ==
  /\ [](\A t \in DOMAIN tasks :
          /\ IF tasks[t].kind = "blob"
             THEN getBlobPath(blobFiles, tasks[t].digest) # Null
             ELSE getManifestPath(manifestFiles, tasks[t].digest) # Null
          /\ tasks[t].pc \in {"pin", "then"} => tasks[t].status = "201"
          /\ (tasks[t].kind = "manifest" /\ tasks[t].pc \in {"svc_init", "svc_ctx"})
               => tasks[t].status = "201"
          /\ tasks[t].pc = "then"
               => \E p \in pinned : /\ p.cid = ipfsCidOf(tasks[t])
                                    /\ p.dataSetId = tasks[t].svc)
  /\ [][\A t \in DOMAIN tasks :
          /\ (tasks[t].status # "201" /\ tasks'[t].status = "201")
               => /\ RecordedIn(mappings', tasks'[t])
                  /\ tasks[t].pc \notin {"pin", "then", "done"}
                  /\ pinned' = pinned
          /\ (tasks[t].kind = "blob" /\ BlobRewrite(t))
               => /\ tasks[t].status = "201"
                  /\ \E p \in pinned : /\ p.cid = ipfsCidOf(tasks[t])
                                       /\ p.dataSetId = tasks[t].svc]_vars

\* a blob went through store, record, 201, pin and rewrite, and a manifest
\* through store, record, 201 and pin
C28_Witness ==
  \E b \in BlobTasks, m \in ManifestTasks :
    /\ tasks[b].pc = "done" /\ tasks[b].status = "201"
    /\ lookupBlob(tasks[b].name, tasks[b].digest) = ipfsCidOf(tasks[b])
    /\ tasks[m].pc = "done" /\ tasks[m].status = "201"
    /\ \E p \in pinned : p.cid = ipfsCidOf(tasks[m])

\* C29: a mapping write of a blob push (the record at the 201, the rewrite
\* after the pin) changes only the value of that PUT's digest in the blobs
\* table of that PUT's image: every manifest reference and every other blob
\* value resolves as before.
C29_BlobWriteFrame ==
  [][\A t \in BlobTasks :
       (PutBlobFinish(t, TRUE) \/ BlobRewrite(t))
         => /\ \A image \in Images, r \in ClientRefs :
                 lookupManifest(image, r)' = lookupManifest(image, r)
            /\ \A image \in Images, d \in ClientDigests :
                 (image # tasks[t].name \/ d # tasks[t].digest)
                   => lookupBlob(image, d)' = lookupBlob(image, d)]_vars

\* C30: a blob PUT that finalizes session u is handled for the image the
\* session was started for: the work it starts records under that image.
C30_SessionImage ==
  [][\A name \in Images, u \in DOMAIN uploadSessions, d \in ClientDigests,
        c \in Chunks \cup {<<>>}, cred \in Creds :
       (/\ PutBlobStatus(u, d, c, cred) = "await"
        /\ PutBlob(name, u, d, c, cred))
         => tasks'[Len(tasks')].name = uploadSessions[u].name]_vars

\* C31: for a manifest that a PUT accepted with Docker-Content-Digest D, every
\* HEAD and every GET of its image under its tag or under D that answers 200
\* carries Docker-Content-Digest D.
C31_SameDigestOnReads ==
  \A t \in ManifestTasks :
    tasks[t].status = "201"
      => \A r \in {tasks[t].ref, tasks[t].digest} :
           /\ HeadManifestResponse(tasks[t].name, r).status = "200"
                => HeadManifestResponse(tasks[t].name, r).digest = tasks[t].digest
           /\ \A fetchOk \in BOOLEAN :
                GetManifestResponse(tasks[t].name, r, fetchOk).status = "200"
                  => GetManifestResponse(tasks[t].name, r, fetchOk).digest
                       = tasks[t].digest

\* C32: an upload session leaves the session table only in a step that is a
\* successful completeUpload of its own upload id; across every other step
\* (PATCHes, failed completeUpload calls, operations on other ids) it stays,
\* under the same image name.
C32_SessionStays ==
  [][\A u \in DOMAIN uploadSessions :
       IF u \in DOMAIN uploadSessions'
       THEN uploadSessions'[u].name = uploadSessions[u].name
       ELSE \E d \in SessionDigests \cup {Null} :
              /\ ~completeUpload(uploadSessions, blobFiles, u, d).threw
              /\ CompleteUpload(u, d)]_vars

\* session 1 is still open with two chunks after session 2 was started, filled
\* and finalized
C32_Witness ==
  /\ nextUpload = 2
  /\ DOMAIN uploadSessions = {1}
  /\ Len(uploadSessions[1].chunks) = 2
  /\ blobFiles # <<>>

\* C33: completeUpload with an expected digest that differs from the digest of
\* the session's bytes throws the digest-mismatch error and leaves the session
\* table (the session, its chunks and size) and the blob directory as they are.
C33_MismatchKeepsSession ==
  /\ [](\A u \in DOMAIN uploadSessions, d \in SessionDigests :
          d # getDigest(uploadSessions[u])
            => LET r == completeUpload(uploadSessions, blobFiles, u, d)
               IN /\ r.threw
                  /\ r.error = "Digest mismatch"
                  /\ r.sessions = uploadSessions
                  /\ r.files = blobFiles)
  /\ [][\A u \in DOMAIN uploadSessions, d \in SessionDigests :
          (d # getDigest(uploadSessions[u]) /\ CompleteUpload(u, d))
            => UNCHANGED <<uploadSessions, blobFiles>>]_vars

\* a session of three bytes in two chunks, with a blob already in the store,
\* is finalized with the digest of other bytes
C33_Witness ==
  \E u \in DOMAIN uploadSessions :
    /\ uploadSessions[u].chunks = <<(<<1>>), (<<2, 3>>)>>
    /\ blobFiles # <<>>
    /\ completeUpload(uploadSessions, blobFiles, u, computeDigest(<<1>>)).threw

\* the sum of the lengths of the chunks
RECURSIVE SumOfLengths(_)
SumOfLengths(chunks) ==
  IF chunks = <<>> THEN 0 ELSE Len(Head(chunks)) + SumOfLengths(Tail(chunks))

\* C34: in every state the size of every session is the sum of the lengths of
\* its chunks; a PATCH answered 202 puts its body after the chunks the session
\* already holds and changes no other session.
C34_SizeIsSum ==
  /\ [](\A u \in DOMAIN uploadSessions :
          uploadSessions[u].size = SumOfLengths(uploadSessions[u].chunks))
  /\ [][\A name \in Images, u \in DOMAIN uploadSessions, c \in SessionChunks,
          cred \in Creds :
          PatchUploadWithin(name, u, c, cred, MaxSessionChunks)
            => /\ uploadSessions'[u].chunks = Append(uploadSessions[u].chunks, c)
               /\ \A v \in DOMAIN uploadSessions \ {u} :
                    /\ v \in DOMAIN uploadSessions'
                    /\ uploadSessions'[v] = uploadSessions[v]]_vars

\* two sessions are open, each with two chunks, in different orders
C34_Witness ==
  /\ DOMAIN uploadSessions = {1, 2}
  /\ uploadSessions[1].chunks = <<(<<1>>), (<<2, 3>>)>>
  /\ uploadSessions[2].chunks = <<(<<2, 3>>), (<<1>>)>>

\* mappings[image].blobs[d], Null when there is none
imageBlobValue(m, image, d) ==
  IF d \in blobsTable(m, image) THEN m[image].props[BLOBS].props[d].s ELSE Null

\* C35: the blobs table stored inside a manifest entry "<image>:<ref>" agrees
\* with the blobs table of the image: every digest it holds has the value of
\* mappings[image].blobs[d].
C35_ManifestBlobsAgree ==
  \A image \in Images, ref \in ClientRefs :
    LET key == ImageKey(image, ref)
    IN (/\ key \in DOMAIN mappings
        /\ mappings[key].kind = "obj"
        /\ In(MANIFEST_CID, mappings[key])
        /\ In(BLOBS, mappings[key]))
         => \A d \in DOMAIN mappings[key].props[BLOBS].props :
              mappings[key].props[BLOBS].props[d].s
                = imageBlobValue(mappings, image, d)

\* a server restarted on the mapping file answers lookupManifest and lookupBlob
\* for every image, reference and digest as the running one does
RestartAgrees ==
  LET reloaded == loadMappings(mappingFile)
  IN /\ \A image \in Images, ref \in ClientRefs :
          getManifestCid(reloaded, image, ref) = getManifestCid(mappings, image, ref)
     /\ \A image \in Images, d \in ClientDigests :
          getBlobCid(reloaded, image, d) = getBlobCid(mappings, image, d)

\* C36: every step that mutates the mapping (memory or file) ends in a state
\* where a restart on the file answers every lookup as before, or the request
\* the mutation belongs to is not answered 201.
C36_FileFollowsMemory ==
  [][mapVars' # mapVars
       => \/ RestartAgrees'
          \/ \E t \in DOMAIN tasks :
               tasks'[t] # tasks[t] /\ tasks'[t].status # "201"]_vars

\* ------------------------------------------------ the mapping on its own
\* ImageMapping constructed on a mapping file that an operator or an earlier
\* version wrote, under addMapping and the lookups
ManifestD == computeDigest(<<7>>)
ManifestC == rootCid(<<7>>)
OtherC == rootCid(<<8>>)

\* the values a file holds under "a:t", "a", "a:u" and "x"; Null: key absent
DirectValues ==
  {Str(ManifestC), Str(ManifestD),
   Obj(MANIFEST_CID :> Str(OtherC) @@ BLOBS :> Obj(ManifestD :> Str(ManifestD))),
   Obj(BLOBS :> Obj(<<>>))}

NestedValues ==
  {Obj(<<"t">> :> Str(OtherC)),
   Obj(<<"t">> :> Obj(MANIFEST_CID :> Str(ManifestD))),
   Obj(ManifestD :> Str(ManifestC)),
   Obj(BLOBS :> Obj(<<>>))}

SiblingValues == {Str(ManifestD), Obj(MANIFEST_CID :> Str(ManifestD))}

UnknownValues == {Str(<<"y">>)}

\* the document with the chosen values; a choice of Null leaves the key out
MappingDocument(direct, nested, sibling, unknown) ==
  LET all == (<<"a", "t">> :> direct) @@ (<<"a">> :> nested)
             @@ (<<"a", "u">> :> sibling) @@ (<<"x">> :> unknown)
  IN [k \in {x \in DOMAIN all : all[x] # Null} |-> all[k]]

MappingFiles ==
  {MappingDocument(d, n, s, u) :
     d \in DirectValues \cup {Null}, n \in NestedValues \cup {Null},
     s \in SiblingValues \cup {Null}, u \in UnknownValues \cup {Null}}

InitMapping == \E file \in MappingFiles : InitWith(file, {})

\* the blobs argument of addMapping: absent, empty, or one layer
BlobMaps == {Str(Null), Obj(<<>>), Obj(computeDigest(LayerData) :> Str(rootCid(LayerData)))}

\* a call of imageMapping.addMapping
AddMapping(imageName, reference, manifestCid, blobs) ==
  /\ mappings' = addMapping(mappings, imageName, reference, manifestCid, blobs)
  /\ mappingFile' = saveMappings(mappings', TRUE)
  /\ UNCHANGED <<storeVars, backendVars, pinned, tasks>>

\* a call of imageMapping.getManifestCid
GetManifestCid(imageName, reference) ==
  /\ getManifestCid(mappings, imageName, reference) \in {Null, ManifestC, ManifestD, OtherC}
  /\ UNCHANGED vars

NextMapping ==
  \/ \E image \in Images, r \in ClientRefs, cid \in {ManifestC, ManifestD},
        blobs \in BlobMaps : AddMapping(image, r, cid, blobs)
  \/ \E image \in Images, r \in ClientRefs : GetManifestCid(image, r)

SpecMapping == InitMapping /\ [][NextMapping]_vars

\* an entry has the shape of a manifest reference: a non-empty string, or an
\* object with manifest_cid
Shaped(v) ==
  \/ v.kind = "str" /\ v.s # Null
  \/ v.kind = "obj" /\ MANIFEST_CID \in DOMAIN v.props

\* the content reference of a shaped entry
ValueOf(v) == IF v.kind = "str" THEN v.s ELSE v.props[MANIFEST_CID].s

\* C37: lookupManifest(image, ref) is the direct "<image>:<ref>" entry when
\* that entry is a string or an object with manifest_cid; else the nested
\* mappings[image][ref] entry by the same rule; else, for a ref that begins
\* with sha256:, ref itself when some "<image>:*" entry has exactly ref as its
\* content reference; else null.
C37_LookupPrecedence ==
  \A image \in Images, ref \in ClientRefs :
    LET key == ImageKey(image, ref)
        direct == key \in DOMAIN mappings /\ Shaped(mappings[key])
        nested == /\ image \in DOMAIN mappings
                  /\ mappings[image].kind = "obj"
                  /\ ref \in DOMAIN mappings[image].props
                  /\ Shaped(mappings[image].props[ref])
        scanned == /\ startsWithSha256(ref)
                   /\ \E k \in DOMAIN mappings :
                        /\ startsWithImage(k, image)
                        /\ Shaped(mappings[k])
                        /\ ValueOf(mappings[k]) = ref
        found == getManifestCid(mappings, image, ref)
    IN /\ direct => found = ValueOf(mappings[key])
       /\ (~direct /\ nested) => found = ValueOf(mappings[image].props[ref])
       /\ (~direct /\ ~nested /\ scanned) => found = ref
       /\ (~direct /\ ~nested /\ ~scanned) => found = Null

\* a direct and a nested entry of (a, t) with different content references:
\* the direct one is returned; and a digest that only the scan finds, under
\* the sibling entry "a:u"
C37_Witness ==
  /\ <<"a", "t">> \in DOMAIN mappings /\ mappings[<<"a", "t">>] = Str(ManifestC)
  /\ <<"a">> \in DOMAIN mappings /\ mappings[<<"a">>] = Obj(<<"t">> :> Str(OtherC))
  /\ <<"a", "u">> \in DOMAIN mappings /\ mappings[<<"a", "u">>] = Str(ManifestD)
  /\ ImageKey(<<"a">>, ManifestD) \notin DOMAIN mappings
  /\ getManifestCid(mappings, <<"a">>, <<"t">>) = ManifestC
  /\ getManifestCid(mappings, <<"a">>, ManifestD) = ManifestD

\* C38: addMapping(image, ref, contentRef, blobMap) sets the key "<image>:<ref>"
\* to the bare string contentRef when blobMap is absent or empty and to the
\* object {manifest_cid, blobs} otherwise, whatever the key held before, and
\* every other top-level key, in memory and in the rewritten file, keeps its
\* value; no key disappears.
C38_AddMappingFrame ==
  [][\A image \in Images, r \in ClientRefs, cid \in {ManifestC, ManifestD},
        blobs \in BlobMaps :
       AddMapping(image, r, cid, blobs)
         => LET key == ImageKey(image, r)
                value == IF blobs \in {Str(Null), Obj(<<>>)}
                         THEN Str(cid)
                         ELSE Obj(MANIFEST_CID :> Str(cid) @@ BLOBS :> blobs)
            IN /\ DOMAIN mappings' = DOMAIN mappings \cup {key}
               /\ mappings'[key] = value
               /\ \A k \in DOMAIN mappings \ {key} : mappings'[k] = mappings[k]
               /\ DOMAIN mappingFile' = DOMAIN mappings'
               /\ mappingFile'[key] = value
               /\ \A k \in DOMAIN mappingFile \ {key} :
                    mappingFile'[k] = mappingFile[k]]_vars

\* the file held the unknown key "x", a nested entry and the key "a:t" as a
\* bare string; "a:t" has been overwritten by an object and "a:sha256..."
\* added, and "x" and "a" are still there
C38_Witness ==
  /\ <<"x">> \in DOMAIN mappingFile /\ mappingFile[<<"x">>] = Str(<<"y">>)
  /\ <<"a">> \in DOMAIN mappingFile
  /\ mappingFile[<<"a">>] = Obj(<<"t">> :> Str(OtherC))
  /\ <<"a", "t">> \in DOMAIN mappingFile
  /\ mappingFile[<<"a", "t">>].kind = "obj"
  /\ In(MANIFEST_CID, mappingFile[<<"a", "t">>])
  /\ mappingFile[<<"a", "t">>].props[MANIFEST_CID] = Str(ManifestD)
  /\ ImageKey(<<"a">>, ManifestD) \in DOMAIN mappingFile
  /\ mappingFile[ImageKey(<<"a">>, ManifestD)] = Str(ManifestC)


\* ------------------------------------------------------------ credentials
\* An Authorization header is Header(<<scheme, payload>>).  A text (a decoded
\* Basic payload, a Bearer token, a private key) is the sequence of its pieces
\* between the ":" characters; a piece records the whitespace in front of it,
\* whether it starts with "0x" after that whitespace, its remaining characters
\* and the whitespace behind it.
Piece(lead, ox, s, trail) == [lead |-> lead, ox |-> ox, s |-> s, trail |-> trail]
Plain(s) == Piece(FALSE, FALSE, s, FALSE)
EmptyPiece == Plain("")

\* the characters of a piece
render(p) ==
  (IF p.lead THEN " " ELSE "") \o (IF p.ox THEN "0x" ELSE "") \o p.s
    \o (IF p.trail THEN " " ELSE "")

\* the string of a text, in the form the rest of the model uses for
\* ":"-joined strings
renderText(text) == [i \in DOMAIN text |-> render(text[i])]

\* Buffer.from(encoded, 'base64').toString('utf-8') and its inverse
base64(text) == [b64 |-> text]
base64Decode(encoded) == encoded.b64

\* String.prototype.trim
trim(text) ==
  [i \in DOMAIN text |->
     [text[i] EXCEPT !.lead = IF i = 1 THEN FALSE ELSE @,
                     !.trail = IF i = Len(text) THEN FALSE ELSE @]]

\* key.startsWith('0x')
startsWith0x(text) == ~text[1].lead /\ text[1].ox

\* normalizePrivateKey
normalizePrivateKey(key) ==
  LET trimmed == trim(key)
  IN IF ~startsWith0x(trimmed) THEN [trimmed EXCEPT ![1].ox = TRUE]
     ELSE trimmed

\* extractCredentials: the private key as a text, Null for no credentials
extractPrivateKey(h) ==
  LET authHeader == headersAuthorization(h)
  IN IF authHeader = Null THEN Null
     ELSE IF authHeader[1] = "Basic" /\ Len(authHeader) > 1
     THEN LET decoded == base64Decode(authHeader[2])
              password == IF Len(decoded) > 1 THEN decoded[2] ELSE EmptyPiece
          IN IF password = EmptyPiece
             THEN normalizePrivateKey(decoded)
             ELSE normalizePrivateKey(<<password>>)
     ELSE IF authHeader[1] = "Bearer" /\ Len(authHeader) > 1
     THEN normalizePrivateKey(authHeader[2])
     ELSE Null

\* extractCredentials: credentials.privateKey
extractCredentials(h) ==
  IF extractPrivateKey(h) = Null THEN Null
  ELSE renderText(extractPrivateKey(h))

\* ---------------------------------------------- manifest PUT from a request
\* The manifest PUT applied to requests: the body is one of the documents or
\* not JSON, the Authorization header is one of CredentialHeaders.
KeyPieces ==
  {Plain("k"), Piece(FALSE, TRUE, "k", FALSE), Piece(TRUE, FALSE, "k", TRUE),
   Piece(TRUE, TRUE, "k", TRUE), EmptyPiece}
UserPieces == {Plain("u"), EmptyPiece}

\* the decoded payloads: a key alone, user:key, and user:key with a ":" in
\* the key
DecodedTexts ==
  {<<p>> : p \in KeyPieces}
    \cup {<<u, p>> : u \in UserPieces, p \in KeyPieces}
    \cup {<<Plain("u"), Plain("k"), Plain("j")>>}

TokenTexts == {<<p>> : p \in KeyPieces} \cup {<<Plain("k"), Plain("j")>>}

BasicHeader(decoded) == Header(<<"Basic", base64(decoded)>>)
BearerHeader(token) == Header(<<"Bearer", token>>)

CredentialHeaders ==
  {NoHeader, Header(Null), Header(<<"junk">>), Header(<<"Basic">>),
   Header(<<"basic", base64(<<Plain("u"), Plain("k")>>)>>)}
    \cup {BasicHeader(d) : d \in DecodedTexts}
    \cup {BearerHeader(t) : t \in TokenTexts}

RequestBodies == DocumentBodies \cup {<<9>>}

\* requireAuth and the manifest PUT up to its first await
PutManifestRequest(name, reference, manifestBytes, h) ==
  PutManifest(name, reference, manifestBytes, extractCredentials(h))

NextRequests ==
  \/ \E body \in RequestBodies, h \in CredentialHeaders :
       PutManifestRequest(<<"a">>, <<"t">>, body, h)
  \/ \E t \in DOMAIN tasks, carOk \in BOOLEAN : PutManifestFinish(t, carOk)

SpecRequests == Init /\ [][NextRequests]_vars


\* C39 (parseManifestLayers, as the code has it): for the document of every
\* manifest PUT, parseManifestLayers returns json.layers when that field is
\* present; otherwise json.fsLayers when that field is present and
\* schemaVersion is not 2; otherwise (no layers, and no fsLayers or
\* schemaVersion 2) the empty list.
C39_LayersBySchema ==
  \A t \in DOMAIN tasks :
    tasks[t].kind = "manifest" =>
      LET json == JSONparse(tasks[t].bytes)
          result == parseManifestLayers(json)
      IN /\ json.hasLayers => result = json.layers
         /\ ~json.hasLayers /\ json.hasFsLayers /\ json.schemaVersion # 2
              => result = json.fsLayers
         /\ ~json.hasLayers /\ (~json.hasFsLayers \/ json.schemaVersion = 2)
              => result = <<>>

\* two answered manifest PUTs with fsLayers and no layers: a legacy document,
\* whose fsLayers are returned, and a schemaVersion 2 document, for which the
\* result is empty
C39_Witness ==
  \E t, u \in DOMAIN tasks :
    LET legacy == JSONparse(tasks[t].bytes)
        v2 == JSONparse(tasks[u].bytes)
    IN /\ tasks[t].status = "201" /\ tasks[u].status = "201"
       /\ legacy.schemaVersion = 1 /\ ~legacy.hasLayers /\ legacy.hasFsLayers
       /\ parseManifestLayers(legacy) = legacy.fsLayers
       /\ legacy.fsLayers # <<>>
       /\ v2.schemaVersion = 2 /\ ~v2.hasLayers /\ v2.hasFsLayers
       /\ parseManifestLayers(v2) = <<>>

\* C39 as stated: layers when present, otherwise fsLayers when present,
\* otherwise the empty list, whatever the schemaVersion.
C39_AsStated ==
  \A t \in DOMAIN tasks :
    tasks[t].kind = "manifest" =>
      LET json == JSONparse(tasks[t].bytes)
          result == parseManifestLayers(json)
      IN /\ json.hasLayers => result = json.layers
         /\ ~json.hasLayers /\ json.hasFsLayers => result = json.fsLayers
         /\ ~json.hasLayers /\ ~json.hasFsLayers => result = <<>>

\* C40 (extractCredentials): in every manifest PUT, the credentials taken from
\* the Authorization header are: for Basic base64(user:pass) the key pass, or
\* the whole decoded value when pass is empty; for Bearer <token> the token;
\* none for a missing or other header.  Every key is trimmed and 0x-prefixed,
\* normalising it again changes nothing, and a key sent with and without the
\* 0x prefix gives the same credential and the same service-cache key.
C40_KeyIsPass ==
  [][\A h \in CredentialHeaders, body \in RequestBodies :
       PutManifestRequest(<<"a">>, <<"t">>, body, h) =>
         LET authHeader == headersAuthorization(h)
             scheme == IF authHeader = Null \/ Len(authHeader) < 2 THEN ""
                       ELSE authHeader[1]
             decoded == base64Decode(authHeader[2])
             pass == SubSeq(decoded, 2, Len(decoded))
             claimed == IF scheme = "Basic"
                        THEN (IF pass \in {<<>>, <<EmptyPiece>>}
                              THEN normalizePrivateKey(decoded)
                              ELSE normalizePrivateKey(pass))
                        ELSE IF scheme = "Bearer"
                        THEN normalizePrivateKey(authHeader[2])
                        ELSE Null
             key == extractPrivateKey(h)
         IN /\ key = claimed
            /\ tasks' # tasks =>
                 tasks'[Len(tasks')].cred = renderText(claimed)
            /\ key # Null =>
                 /\ ~key[1].lead /\ ~key[Len(key)].trail /\ key[1].ox
                 /\ normalizePrivateKey(key) = key
            /\ \A p \in KeyPieces :
                 LET with == BearerHeader(<<[p EXCEPT !.ox = TRUE]>>)
                     without == BearerHeader(<<[p EXCEPT !.ox = FALSE]>>)
                 IN /\ extractCredentials(with) = extractCredentials(without)
                    /\ getCacheKey(extractCredentials(with))
                         = getCacheKey(extractCredentials(without))]_vars

====
